---- MODULE Spec2Model ----
(***************************************************************************)
(* The normalisation and indicator pipeline of the repository:             *)
(*   src/src/data_cleaner.py          clean_data, _try_parse_dates         *)
(*   src/src/feature_engineering.py   _normalize_text, _build_column_map,  *)
(*                                    create_indicators                    *)
(*   src/src/main.py                  clean_data, then create_indicators   *)
(*                                                                         *)
(* A Python string is a tuple of one-character strings, so that strip,     *)
(* lower, substring containment, date parsing and the lexicographic sort   *)
(* are computed character by character, as the code computes them.         *)
(* A table (a DataFrame) is [cols |-> labels, rows |-> tuples of cells].   *)
(***************************************************************************)
EXTENDS Integers, Sequences, FiniteSets, TLC

VARIABLES build, table, pc, cleaned, again, longres, ind, cols, colmap

vars == <<build, table, pc, cleaned, again, longres, ind, cols, colmap>>

(***************************************************************************)
(* Characters and strings                                                  *)
(***************************************************************************)

\* The characters of the model, in code-point order (Python compares
\* strings by code point).
Chars ==
  <<" ","'","(",")","-","/","0","1","2","3","4","5","6","7","8","9",":",
    "A","B","C","D","E","F","G","H","I","J","K","L","M","N","O","P","Q","R",
    "S","T","U","V","W","X","Y","Z","_",
    "a","b","c","d","e","f","g","h","i","j","k","l","m","n","o","p","q","r",
    "s","t","u","v","w","x","y","z">>

Ord == [c \in {Chars[i] : i \in 1..Len(Chars)} |->
          CHOOSE i \in 1..Len(Chars) : Chars[i] = c]

IsDigit(c) == Ord[c] >= Ord["0"] /\ Ord[c] <= Ord["9"]

IsUpper(c) == Ord[c] >= Ord["A"] /\ Ord[c] <= Ord["Z"]

IsLowerCh(c) == Ord[c] >= Ord["a"] /\ Ord[c] <= Ord["z"]

\* str.isalnum and str.isspace on one character
IsAlnum(c) == IsDigit(c) \/ IsUpper(c) \/ IsLowerCh(c)

IsSpace(c) == c = " "

LowerCh(c) == IF IsUpper(c) THEN Chars[Ord[c] - Ord["A"] + Ord["a"]] ELSE c

\* The sequence f itself, its elements computed once (a list the code has
\* built, rather than a rule to recompute at every access).
Tuple(f) == f \o <<>>

\* str.lower
Lower(s) == Tuple([i \in 1..Len(s) |-> LowerCh(s[i])])

\* str.strip: drop leading and trailing whitespace
Strip(s) ==
  LET nonsp == {i \in 1..Len(s) : ~IsSpace(s[i])}
      lo == CHOOSE i \in nonsp : \A j \in nonsp : i <= j
      hi == CHOOSE i \in nonsp : \A j \in nonsp : i >= j
  IN IF nonsp = {} THEN <<>> ELSE SubSeq(s, lo, hi)

\* kw in s: substring containment
Contains(s, kw) ==
  \/ kw = <<>>
  \/ \E i \in 1..(Len(s) - Len(kw) + 1) :
       s[i] = kw[1] /\ SubSeq(s, i, i + Len(kw) - 1) = kw

RECURSIVE FirstDiff(_, _, _)
\* the first index from i on at which s and t differ, 0 if one is a prefix
\* of the other
FirstDiff(s, t, i) ==
  IF i > Len(s) \/ i > Len(t) THEN 0
  ELSE IF s[i] # t[i] THEN i
  ELSE FirstDiff(s, t, i + 1)

\* s < t in Python: lexicographic by code point, a proper prefix first
StrLess(s, t) ==
  LET i == FirstDiff(s, t, 1)
  IN IF i = 0 THEN Len(s) < Len(t) ELSE Ord[s[i]] < Ord[t[i]]

AllDigits(s) == Len(s) > 0 /\ \A i \in 1..Len(s) : IsDigit(s[i])

DigitVal(c) == Ord[c] - Ord["0"]

RECURSIVE NumberOf(_)
\* int("...") of a string of digits
NumberOf(s) ==
  IF Len(s) = 0 THEN 0
  ELSE 10 * NumberOf(SubSeq(s, 1, Len(s) - 1)) + DigitVal(s[Len(s)])

RECURSIVE Digits(_)
\* str(n) of a natural number
Digits(n) ==
  IF n < 10 THEN <<Chars[Ord["0"] + n]>>
  ELSE Digits(n \div 10) \o <<Chars[Ord["0"] + (n % 10)]>>

Pad2(n) == IF n < 10 THEN <<"0">> \o Digits(n) ELSE Digits(n)

s_description == <<"d","e","s","c","r","i","p","t","i","o","n">>
s_date == <<"d","a","t","e">>
s_value == <<"v","a","l","u","e">>
s_val == <<"v","a","l">>
s_amount == <<"a","m","o","u","n","t">>
s_fiscal_year == <<"f","i","s","c","a","l","_","y","e","a","r">>
s_nan == <<"n","a","n">>

(***************************************************************************)
(* Cells, numbers with a missing marker, timestamps                        *)
(***************************************************************************)

NoDate == [y |-> 0, m |-> 0, d |-> 0]

\* pandas NaT
NaT == NoDate

\* A cell of a table: text, a number, an empty cell (NaN) or a Timestamp.
Txt(s) == [k |-> "txt", s |-> s, n |-> 0, d |-> NoDate]

Num(n) == [k |-> "num", s |-> <<>>, n |-> n, d |-> NoDate]

Empty == [k |-> "nan", s |-> <<>>, n |-> 0, d |-> NoDate]

Ts(d) == [k |-> "ts", s |-> <<>>, n |-> 0, d |-> d]

\* A float that may be missing (NaN / pd.NA).
\* The number v / q; q is 1 except for a computed ratio.
NA == [na |-> TRUE, v |-> 0, q |-> 1]

Val(n) == [na |-> FALSE, v |-> n, q |-> 1]

\* Series.astype(str) on one cell
AsStr(c) ==
  CASE c.k = "txt" -> c.s
    [] c.k = "num" -> Digits(c.n)
    [] c.k = "nan" -> s_nan
    [] OTHER -> Digits(c.d.y) \o <<"-">> \o Pad2(c.d.m) \o <<"-">> \o Pad2(c.d.d)

\* pd.to_numeric(errors="coerce") on one cell: a number, a string of
\* digits, or missing.
ToNumeric(c) ==
  CASE c.k = "num" -> Val(c.n)
    [] c.k = "txt" /\ AllDigits(Strip(c.s)) -> Val(NumberOf(Strip(c.s)))
    [] OTHER -> NA

DateLess(a, b) ==
  \/ a.y < b.y
  \/ a.y = b.y /\ a.m < b.m
  \/ a.y = b.y /\ a.m = b.m /\ a.d < b.d

(***************************************************************************)
(* data_cleaner.py: _try_parse_dates                                       *)
(***************************************************************************)

MonthAbbr ==
  <<<<"j","a","n">>, <<"f","e","b">>, <<"m","a","r">>, <<"a","p","r">>,
    <<"m","a","y">>, <<"j","u","n">>, <<"j","u","l">>, <<"a","u","g">>,
    <<"s","e","p">>, <<"o","c","t">>, <<"n","o","v">>, <<"d","e","c">>>>

\* %b: the month whose abbreviation s is (case-insensitive), 0 if none
MonthOf(s) ==
  LET hit == {m \in 1..12 : MonthAbbr[m] = Lower(s)}
  IN IF hit = {} THEN 0 ELSE CHOOSE m \in hit : TRUE

DaysIn(y, m) ==
  CASE m \in {4, 6, 9, 11} -> 30
    [] m = 2 -> IF y % 4 = 0 /\ (y % 100 # 0 \/ y % 400 = 0) THEN 29 ELSE 28
    [] OTHER -> 31

MkDate(y, m, d) ==
  IF m >= 1 /\ m <= 12 /\ d >= 1 /\ d <= DaysIn(y, m)
  THEN [y |-> y, m |-> m, d |-> d] ELSE NaT

\* %y: a two-digit year, 00-68 in 2000-2068 and 69-99 in 1969-1999
Year2(n) == IF n <= 68 THEN 2000 + n ELSE 1900 + n

Formats == <<"%b-%y", "%b-%Y", "%Y-%m-%d", "%Y-%m">>

\* pd.to_datetime(value, format=fmt, errors="coerce") on one string: the
\* whole string must match the format (two-digit month and day fields).
ParseFmt(fmt, s) ==
  CASE fmt = "%b-%y" ->
         IF Len(s) = 6 /\ s[4] = "-" /\ AllDigits(SubSeq(s, 5, 6))
            /\ MonthOf(SubSeq(s, 1, 3)) # 0
         THEN MkDate(Year2(NumberOf(SubSeq(s, 5, 6))), MonthOf(SubSeq(s, 1, 3)), 1)
         ELSE NaT
    [] fmt = "%b-%Y" ->
         IF Len(s) = 8 /\ s[4] = "-" /\ AllDigits(SubSeq(s, 5, 8))
            /\ MonthOf(SubSeq(s, 1, 3)) # 0
         THEN MkDate(NumberOf(SubSeq(s, 5, 8)), MonthOf(SubSeq(s, 1, 3)), 1)
         ELSE NaT
    [] fmt = "%Y-%m-%d" ->
         IF Len(s) = 10 /\ s[5] = "-" /\ s[8] = "-" /\ AllDigits(SubSeq(s, 1, 4))
            /\ AllDigits(SubSeq(s, 6, 7)) /\ AllDigits(SubSeq(s, 9, 10))
         THEN MkDate(NumberOf(SubSeq(s, 1, 4)), NumberOf(SubSeq(s, 6, 7)),
                     NumberOf(SubSeq(s, 9, 10)))
         ELSE NaT
    [] fmt = "%Y-%m" ->
         IF Len(s) = 7 /\ s[5] = "-" /\ AllDigits(SubSeq(s, 1, 4))
            /\ AllDigits(SubSeq(s, 6, 7))
         THEN MkDate(NumberOf(SubSeq(s, 1, 4)), NumberOf(SubSeq(s, 6, 7)), 1)
         ELSE NaT
    [] OTHER -> NaT

\* pd.to_datetime(value, errors="coerce") on one string, the general parser:
\* the forms above, or year/month/day written with slashes.
ParseGeneral(s) ==
  LET hit == {i \in 1..Len(Formats) : ParseFmt(Formats[i], s) # NaT}
  IN IF hit # {} THEN ParseFmt(Formats[CHOOSE i \in hit : \A j \in hit : i <= j], s)
     ELSE IF Len(s) = 10 /\ s[5] = "/" /\ s[8] = "/" /\ AllDigits(SubSeq(s, 1, 4))
             /\ AllDigits(SubSeq(s, 6, 7)) /\ AllDigits(SubSeq(s, 9, 10))
     THEN MkDate(NumberOf(SubSeq(s, 1, 4)), NumberOf(SubSeq(s, 6, 7)),
                 NumberOf(SubSeq(s, 9, 10)))
     ELSE NaT

\* The first format that parses at least one value of the column is adopted
\* for the whole column; with none, the general parser, value by value.
_try_parse_dates(series) ==
  LET works == {f \in 1..Len(Formats) :
                  \E i \in 1..Len(series) : ParseFmt(Formats[f], series[i]) # NaT}
      fmt == IF works = {} THEN 0 ELSE CHOOSE f \in works : \A g \in works : f <= g
  IN Tuple([i \in 1..Len(series) |->
              IF fmt = 0 THEN ParseGeneral(series[i])
              ELSE ParseFmt(Formats[fmt], series[i])])

(***************************************************************************)
(* data_cleaner.py: clean_data                                             *)
(***************************************************************************)

\* The first of the indices hit, 0 if there is none (a for loop with break)
FirstIdx(hit) ==
  IF hit = {} THEN 0 ELSE CHOOSE i \in hit : \A j \in hit : i <= j

\* DataFrame.rename(columns={old: new})
Rename(cs, old, new) ==
  Tuple([i \in 1..Len(cs) |-> IF cs[i] = old THEN new ELSE cs[i]])

\* lambda d: d.year if d.month >= 7 else d.year - 1
FiscalYear(d) == IF d.m >= 7 THEN d.y ELSE d.y - 1

KeyLess(a, b) == DateLess(a[1], b[1]) \/ (a[1] = b[1] /\ StrLess(a[2], b[2]))

RECURSIVE SortKeys(_)
\* the keys in ascending (date, description) order
SortKeys(K) ==
  IF K = {} THEN <<>>
  ELSE LET k == CHOOSE a \in K : \A b \in K \ {a} : KeyLess(a, b)
       IN <<k>> \o SortKeys(K \ {k})

RECURSIVE SumOver(_, _)
\* the sum of f[i].v over the indices I
SumOver(I, f) ==
  IF I = {} THEN 0
  ELSE LET i == CHOOSE j \in I : TRUE IN f[i].v + SumOver(I \ {i}, f)

Failed(what) ==
  [status |-> what, rows |-> <<>>, reported |-> 0, reshaped |-> 0, grouped |-> 0]

\* A count of every excluded row: those with an unparsable date and those
\* with a value that is not numeric.
UnparsedCount_AllDrops(date, value) ==
  Cardinality({i \in 1..Len(date) : date[i] = NaT \/ value[i].na})

\* Line 78, unparsed_count = df_long["date"].isna().sum(): the count that
\* line 100 reports. value is the column that line 84 coerces.
UnparsedCount(date, value) == Cardinality({i \in 1..Len(date) : date[i] = NaT})

\* Lines 77-103 on the columns of df_long: the rows with a parsed date and
\* a numeric value are grouped by (date, description), summed, sorted and
\* given their fiscal year.
GroupRows(description, date, value) ==
  LET kept == {i \in 1..Len(date) : date[i] # NaT /\ ~value[i].na}
      keys == SortKeys({<<date[i], description[i]>> : i \in kept})
  IN [status |-> "ok",
      rows |-> Tuple([j \in 1..Len(keys) |->
                  [date |-> keys[j][1],
                   description |-> keys[j][2],
                   value |-> SumOver({i \in kept : <<date[i], description[i]>> = keys[j]}, value),
                   fiscal_year |-> FiscalYear(keys[j][1])]]),
      reported |-> UnparsedCount(date, value),
      reshaped |-> Len(date),
      grouped |-> Cardinality(kept)]

\* Lines 70-103: what clean_data does with the reshaped frame df_long, a
\* sequence of [description, date, value] rows of cells. Line 71 makes the
\* description column, lines 74-75 the date column, line 84 the value column.
Finish(raw) ==
  GroupRows(Tuple([i \in 1..Len(raw) |-> Strip(AsStr(raw[i].description))]),
            _try_parse_dates(Tuple([i \in 1..Len(raw) |-> Strip(AsStr(raw[i].date))])),
            Tuple([i \in 1..Len(raw) |-> ToNumeric(raw[i].value)]))

\* df.melt(id_vars=[desc_col], var_name="date", value_name="value"): one row
\* per cell, the columns in their order and the rows within each column.
Melt(cs, rows, d, other) ==
  Tuple([k \in 1..(Len(other) * Len(rows)) |->
     LET c == other[((k - 1) \div Len(rows)) + 1]
         r == ((k - 1) % Len(rows)) + 1
     IN [description |-> rows[r][d], date |-> Txt(cs[c]), value |-> rows[r][c]]])

\* The else branch, lines 55-68: the renames, then the columns that
\* lines 71-84 read by name (0 where the name is absent).
LongColumns(cs, d) ==
  LET c1 == Rename(cs, cs[d], s_description)
      hasDate == \E i \in 1..Len(c1) : c1[i] = s_date
      dlike == FirstIdx({i \in 1..Len(c1) : Contains(Lower(c1[i]), s_date)})
      c2 == IF ~hasDate /\ dlike # 0 THEN Rename(c1, c1[dlike], s_date) ELSE c1
      hasValue == \E i \in 1..Len(c2) : c2[i] = s_value
      vlike == FirstIdx({i \in 1..Len(c2) : Lower(c2[i]) \in {s_value, s_val, s_amount}})
      c3 == IF ~hasValue /\ vlike # 0 THEN Rename(c2, c2[vlike], s_value) ELSE c2
  IN [description |-> FirstIdx({i \in 1..Len(c3) : c3[i] = s_description}),
      date |-> FirstIdx({i \in 1..Len(c3) : c3[i] = s_date}),
      value |-> FirstIdx({i \in 1..Len(c3) : c3[i] = s_value})]

\* Lines 55-87 on a table taken as long: lines 74 and 84 read the columns
\* date and value, a KeyError when one is absent.
FinishLong(rows, lc) ==
  IF lc.date = 0 \/ lc.value = 0 THEN Failed("KeyError")
  ELSE Finish(Tuple([r \in 1..Len(rows) |->
                 [description |-> rows[r][lc.description],
                  date |-> rows[r][lc.date],
                  value |-> rows[r][lc.value]]]))

\* Line 48: the positions of the columns other than the description column
OtherCols(cs, desc_col) ==
  SelectSeq(Tuple([i \in 1..Len(cs) |-> i]), LAMBDA i : cs[i] # cs[desc_col])

\* Lines 44-68 and on, given the stripped labels cs and the position
\* desc_col of the description column (0 when there is none).
Reshape(strict, cs, rows, desc_col) ==
  IF desc_col = 0 THEN Failed("MissingColumn")
  ELSE IF Len(OtherCols(cs, desc_col)) > 1
  THEN IF strict /\ \E i \in 1..Len(cs) : cs[i] = s_value
       THEN Failed("MeltValueError")
       ELSE Finish(Melt(cs, rows, desc_col, OtherCols(cs, desc_col)))
  ELSE FinishLong(rows, LongColumns(cs, desc_col))

\* Line 35
StripColumns(cs) == Tuple([i \in 1..Len(cs) |-> Strip(cs[i])])

\* Lines 38-42: the first column whose label is "description", 0 if none
DescCol(cs) == FirstIdx({i \in 1..Len(cs) : Lower(Strip(cs[i])) = s_description})

\* clean_data(df). strict: DataFrame.melt raises ValueError when value_name
\* is already a column (pandas 2); otherwise it only warns (pandas 1).
clean_data(strict, df) ==
  Reshape(strict, StripColumns(df.cols), df.rows, DescCol(StripColumns(df.cols)))

(***************************************************************************)
(* feature_engineering.py: _normalize_text, _build_column_map              *)
(***************************************************************************)

Range(f) == {f[i] : i \in DOMAIN f}

\* "".join(ch.lower() if ch.isalnum() or ch.isspace() else " " ...).strip()
_normalize_text(s) ==
  Strip(Tuple([i \in 1..Len(s) |->
                 IF IsAlnum(s[i]) \/ IsSpace(s[i]) THEN LowerCh(s[i]) ELSE " "]))

\* The canonical keys, in the order of the keywords dict.
Canon ==
  <<"exports",
    "imports",
    "services_export",
    "services_import",
    "pi_credit",
    "pi_debit",
    "secondary_credit",
    "secondary_debit",
    "workers_remittances",
    "current_account_balance",
    "gdp">>

keywords ==
  [canon \in {Canon[i] : i \in 1..Len(Canon)} |->
     CASE canon = "exports" ->
            <<<<"e","x","p","o","r","t">>,
              <<"e","x","p","o","r","t","s">>,
              <<"e","x","p","o","r","t","s","_","o","f","_","g","o","o","d","s">>,
              <<"e","x","p","o","r","t","s","_","o","f","_","g","o","o","d","s","_","f","o","b">>>>
       [] canon = "imports" ->
            <<<<"i","m","p","o","r","t">>,
              <<"i","m","p","o","r","t","s">>,
              <<"i","m","p","o","r","t","s","_","o","f","_","g","o","o","d","s">>,
              <<"i","m","p","o","r","t","s","_","o","f","_","g","o","o","d","s","_","f","o","b">>>>
       [] canon = "services_export" ->
            <<<<"s","e","r","v","i","c","e","s"," ","e","x","p","o","r","t">>,
              <<"s","e","r","v","i","c","e","s","_","e","x","p","o","r","t","s">>,
              <<"s","e","r","v","i","c","e","s","_","e","x","p","o","r","t">>>>
       [] canon = "services_import" ->
            <<<<"s","e","r","v","i","c","e","s"," ","i","m","p","o","r","t">>,
              <<"s","e","r","v","i","c","e","s","_","i","m","p","o","r","t","s">>,
              <<"s","e","r","v","i","c","e","s","_","i","m","p","o","r","t">>>>
       [] canon = "pi_credit" ->
            <<<<"p","r","i","m","a","r","y"," ","i","n","c","o","m","e"," ","c","r","e","d","i","t">>,
              <<"p","r","i","m","a","r","y"," ","i","n","c","o","m","e",":"," ","c","r","e","d","i","t">>,
              <<"p","i"," ","c","r","e","d","i","t">>,
              <<"p","i","_","c","r","e","d","i","t">>>>
       [] canon = "pi_debit" ->
            <<<<"p","r","i","m","a","r","y"," ","i","n","c","o","m","e"," ","d","e","b","i","t">>,
              <<"p","r","i","m","a","r","y"," ","i","n","c","o","m","e",":"," ","d","e","b","i","t">>,
              <<"p","i"," ","d","e","b","i","t">>,
              <<"p","i","_","d","e","b","i","t">>>>
       [] canon = "secondary_credit" ->
            <<<<"s","e","c","o","n","d","a","r","y"," ","i","n","c","o","m","e"," ","c","r","e","d","i","t">>,
              <<"s","e","c","o","n","d","a","r","y"," ","c","r","e","d","i","t">>,
              <<"s","e","c","o","n","d","a","r","y","_","i","n","c","o","m","e","_","c","r","e","d","i","t">>>>
       [] canon = "secondary_debit" ->
            <<<<"s","e","c","o","n","d","a","r","y"," ","i","n","c","o","m","e"," ","d","e","b","i","t">>,
              <<"s","e","c","o","n","d","a","r","y"," ","d","e","b","i","t">>,
              <<"s","e","c","o","n","d","a","r","y","_","i","n","c","o","m","e","_","d","e","b","i","t">>>>
       [] canon = "workers_remittances" ->
            <<<<"w","o","r","k","e","r","s"," ","r","e","m","i","t","t","a","n","c","e","s">>,
              <<"w","o","r","k","e","r","s","'"," ","r","e","m","i","t","t","a","n","c","e","s">>,
              <<"w","o","r","k","e","r","s","_","r","e","m","i","t","t","a","n","c","e","s">>,
              <<"r","e","m","i","t","t","a","n","c","e","s">>>>
       [] canon = "current_account_balance" ->
            <<<<"c","u","r","r","e","n","t"," ","a","c","c","o","u","n","t"," ","b","a","l","a","n","c","e">>,
              <<"c","u","r","r","e","n","t","_","a","c","c","o","u","n","t","_","b","a","l","a","n","c","e">>,
              <<"c","u","r","r","e","n","t","_","a","c","c","o","u","n","t">>>>
       [] canon = "gdp" ->
            <<<<"g","d","p">>,
              <<"g","r","o","s","s","_","d","o","m","e","s","t","i","c","_","p","r","o","d","u","c","t">>,
              <<"g","d","p","_","c","u","r","r","e","n","t","_","p","r","i","c","e","s">>,
              <<"g","d","p","_","c","u","r","r","e","n","t">>>>]


\* Line 9, the dict comprehension { _normalize_text(c): c for c in cols }:
\* a key keeps the place of its first insertion and the value of its last.
NormalizedToCol(cs) ==
  LET norm == Tuple([i \in 1..Len(cs) |-> _normalize_text(cs[i])])
      firsts == SelectSeq(Tuple([i \in 1..Len(cs) |-> i]),
                          LAMBDA i : \A j \in 1..(i - 1) : norm[j] # norm[i])
      last(i) == CHOOSE j \in 1..Len(cs) :
                   norm[j] = norm[i] /\ \A k \in 1..Len(cs) : norm[k] = norm[i] => k <= j
  IN Tuple([k \in 1..Len(firsts) |->
              [norm_col |-> norm[firsts[k]], orig_col |-> cs[last(firsts[k])]]])

\* Lines 25-37: for each canonical key the first entry of the dict whose
\* normalized text contains one of the key's keywords (and whose label is
\* truthy, i.e. not the empty string).
_build_column_map(cs) ==
  LET normalized_to_col == NormalizedToCol(cs)
      found == Tuple([c \in 1..Len(Canon) |->
                 FirstIdx({k \in 1..Len(normalized_to_col) :
                             /\ \E kw \in Range(keywords[Canon[c]]) :
                                  Contains(normalized_to_col[k].norm_col, kw)
                             /\ normalized_to_col[k].orig_col # <<>>})])
      matched == {c \in 1..Len(Canon) : found[c] # 0}
  IN [canon \in {Canon[c] : c \in matched} |->
        normalized_to_col[found[CHOOSE c \in matched : Canon[c] = canon]].orig_col]

(***************************************************************************)
(* feature_engineering.py: create_indicators                               *)
(***************************************************************************)

n_balance_on_goods == <<"b","a","l","a","n","c","e","_","o","n","_","g","o","o","d","s">>
n_balance_on_services == <<"b","a","l","a","n","c","e","_","o","n","_","s","e","r","v","i","c","e","s">>
n_balance_on_primary_income == <<"b","a","l","a","n","c","e","_","o","n","_","p","r","i","m","a","r","y","_","i","n","c","o","m","e">>
n_balance_on_secondary_income == <<"b","a","l","a","n","c","e","_","o","n","_","s","e","c","o","n","d","a","r","y","_","i","n","c","o","m","e">>
n_secondary_credit_combined == <<"s","e","c","o","n","d","a","r","y","_","c","r","e","d","i","t","_","c","o","m","b","i","n","e","d">>
n_current_account_calculated == <<"c","u","r","r","e","n","t","_","a","c","c","o","u","n","t","_","c","a","l","c","u","l","a","t","e","d">>
n_current_account_reported == <<"c","u","r","r","e","n","t","_","a","c","c","o","u","n","t","_","r","e","p","o","r","t","e","d">>
n_current_account_diff == <<"c","u","r","r","e","n","t","_","a","c","c","o","u","n","t","_","d","i","f","f">>
n_ca_percent_gdp == <<"c","a","_","p","e","r","c","e","n","t","_","g","d","p">>
n_has_balance_on_goods == <<"_","h","a","s","_","b","a","l","a","n","c","e","_","o","n","_","g","o","o","d","s">>
n_has_balance_on_services == <<"_","h","a","s","_","b","a","l","a","n","c","e","_","o","n","_","s","e","r","v","i","c","e","s">>
n_has_balance_on_primary_income == <<"_","h","a","s","_","b","a","l","a","n","c","e","_","o","n","_","p","r","i","m","a","r","y","_","i","n","c","o","m","e">>
n_has_balance_on_secondary_income == <<"_","h","a","s","_","b","a","l","a","n","c","e","_","o","n","_","s","e","c","o","n","d","a","r","y","_","i","n","c","o","m","e">>
n_has_current_account_calculated == <<"_","h","a","s","_","c","u","r","r","e","n","t","_","a","c","c","o","u","n","t","_","c","a","l","c","u","l","a","t","e","d">>

\* Series arithmetic: a missing operand gives a missing result.
Minus(a, b) ==
  Tuple([j \in 1..Len(a) |->
     IF a[j].na \/ b[j].na THEN NA
     ELSE [na |-> FALSE, v |-> a[j].v * b[j].q - b[j].v * a[j].q, q |-> a[j].q * b[j].q]])

Plus(a, b) ==
  Tuple([j \in 1..Len(a) |->
     IF a[j].na \/ b[j].na THEN NA
     ELSE [na |-> FALSE, v |-> a[j].v * b[j].q + b[j].v * a[j].q, q |-> a[j].q * b[j].q]])

\* Series.fillna(0)
FillNa0(a) == Tuple([j \in 1..Len(a) |-> IF a[j].na THEN Val(0) ELSE a[j]])

\* (a / b.replace({0: pd.NA})) * 100
PercentOf(a, b) ==
  Tuple([j \in 1..Len(a) |->
     IF a[j].na \/ b[j].na \/ b[j].v = 0 THEN NA
     ELSE [na |-> FALSE, v |-> a[j].v * b[j].q * 100, q |-> a[j].q * b[j].v]])

\* A column holding one scalar in every period (a bool is the number 1 or 0).
Const(n, b) == Tuple([j \in 1..n |-> Val(IF b THEN 1 ELSE 0)])

RECURSIVE SortDates(_)
SortDates(D) ==
  IF D = {} THEN <<>>
  ELSE LET d == CHOOSE a \in D : \A b \in D \ {a} : DateLess(a, b)
       IN <<d>> \o SortDates(D \ {d})

RECURSIVE SortStrs(_)
SortStrs(S) ==
  IF S = {} THEN <<>>
  ELSE LET x == CHOOSE a \in S : \A b \in S \ {a} : StrLess(a, b)
       IN <<x>> \o SortStrs(S \ {x})

RECURSIVE SumValues(_, _)
\* the sum of rows[i].value over the indices I
SumValues(I, rows) ==
  IF I = {} THEN 0
  ELSE LET i == CHOOSE j \in I : TRUE IN rows[i].value + SumValues(I \ {i}, rows)

\* A pivot that fills 0 where (d, c) has no record.
PivotCell_ZeroFill(rows, d, c) ==
  LET I == {i \in 1..Len(rows) : rows[i].date = d /\ rows[i].description = c}
  IN Val(SumValues(I, rows))

\* One cell of the pivot: the sum of the records of (d, c), missing with none.
PivotCell(rows, d, c) ==
  LET I == {i \in 1..Len(rows) : rows[i].date = d /\ rows[i].description = c}
  IN IF I = {} THEN NA ELSE Val(SumValues(I, rows))

\* Lines 56-59: groupby(["date", "description"]).sum(), then pivot: one row
\* per date (index), one column per description (cols), both sorted;
\* data[k] is the series of column cols[k].
Pivot(rows) ==
  LET dates == SortDates({rows[i].date : i \in 1..Len(rows)})
      descs == SortStrs({rows[i].description : i \in 1..Len(rows)})
  IN [index |-> dates,
      cols |-> descs,
      data |-> Tuple([k \in 1..Len(descs) |->
                 Tuple([j \in 1..Len(dates) |-> PivotCell(rows, dates[j], descs[k])])])]

\* "name" in pivot.columns
HasCol(p, name) == \E k \in 1..Len(p.cols) : p.cols[k] = name

\* pivot[name]
Col(p, name) == p.data[FirstIdx({k \in 1..Len(p.cols) : p.cols[k] = name})]

\* pivot[name] = series: an existing column is overwritten in place, a new
\* one is appended.
SetCol(p, name, series) ==
  IF HasCol(p, name)
  THEN [p EXCEPT !.data[FirstIdx({k \in 1..Len(p.cols) : p.cols[k] = name})] = series]
  ELSE [p EXCEPT !.cols = Append(p.cols, name), !.data = Append(p.data, series)]

\* pivot.rename(columns={old: new}, inplace=True)
RenameCol(p, old, new) == [p EXCEPT !.cols = Rename(p.cols, old, new)]

\* Lines 67-77: a balance is computed only if both its sides resolve.
Balance(p, col_map, name, credit, debit) ==
  IF credit \in DOMAIN col_map /\ debit \in DOMAIN col_map
  THEN SetCol(p, name, Minus(Col(p, col_map[credit]), Col(p, col_map[debit])))
  ELSE p

\* Lines 80-92: secondary credit and workers' remittances are added with a
\* missing addend counted as 0; the balance needs the debit side.
SecondaryIncome(p, col_map) ==
  LET hasCredit == "secondary_credit" \in DOMAIN col_map
      hasRemits == "workers_remittances" \in DOMAIN col_map
      sec_credit == Col(p, col_map["secondary_credit"])
      remits == Col(p, col_map["workers_remittances"])
      q == CASE hasCredit /\ hasRemits ->
                  SetCol(p, n_secondary_credit_combined, Plus(FillNa0(sec_credit), FillNa0(remits)))
             [] hasCredit /\ ~hasRemits ->
                  SetCol(p, n_secondary_credit_combined, FillNa0(sec_credit))
             [] ~hasCredit /\ hasRemits ->
                  SetCol(p, n_secondary_credit_combined, FillNa0(remits))
             [] OTHER -> p
  IN IF HasCol(q, n_secondary_credit_combined) /\ "secondary_debit" \in DOMAIN col_map
     THEN SetCol(q, n_balance_on_secondary_income,
                 Minus(Col(q, n_secondary_credit_combined), Col(p, col_map["secondary_debit"])))
     ELSE q

comps ==
  <<n_balance_on_goods, n_balance_on_services, n_balance_on_primary_income,
    n_balance_on_secondary_income>>

RECURSIVE RowSum(_, _, _)
\* DataFrame.sum(axis=1) at period j over the columns names: missing values
\* are skipped (skipna), and a row with nothing to add sums to 0.
RowSum(p, names, j) ==
  IF names = <<>> THEN Val(0)
  ELSE LET x == Col(p, Head(names))[j]
           rest == RowSum(p, Tail(names), j)
       IN IF x.na THEN rest
          ELSE [na |-> FALSE, v |-> x.v * rest.q + rest.v * x.q, q |-> x.q * rest.q]

\* Lines 95-98
CurrentAccount(p) ==
  LET available == SelectSeq(comps, LAMBDA c : HasCol(p, c))
  IN IF available # <<>>
     THEN SetCol(p, n_current_account_calculated,
                 Tuple([j \in 1..Len(p.index) |-> RowSum(p, available, j)]))
     ELSE p

\* The reported series copied under its new name, the original column kept.
Reported_KeepsOriginal(p, col_map) ==
  IF "current_account_balance" \in DOMAIN col_map
  THEN LET r == SetCol(p, n_current_account_reported,
                       Col(p, col_map["current_account_balance"]))
       IN IF HasCol(r, n_current_account_calculated)
          THEN SetCol(r, n_current_account_diff,
                      Minus(Col(r, n_current_account_reported),
                            Col(r, n_current_account_calculated)))
          ELSE r
  ELSE p

\* Lines 101-105
Reported(p, col_map) ==
  IF "current_account_balance" \in DOMAIN col_map
  THEN LET r == RenameCol(p, col_map["current_account_balance"], n_current_account_reported)
       IN IF HasCol(r, n_current_account_calculated)
          THEN SetCol(r, n_current_account_diff,
                      Minus(Col(r, n_current_account_reported),
                            Col(r, n_current_account_calculated)))
          ELSE r
  ELSE p

\* Line 109 reads pivot[col_map["gdp"]]: a KeyError if that column is gone.
GdpKeyError(p, col_map) ==
  /\ HasCol(p, n_current_account_calculated)
  /\ "gdp" \in DOMAIN col_map
  /\ ~HasCol(p, col_map["gdp"])

\* Lines 108-110
PercentGdp(p, col_map) ==
  IF HasCol(p, n_current_account_calculated) /\ "gdp" \in DOMAIN col_map
  THEN SetCol(p, n_ca_percent_gdp,
              PercentOf(Col(p, n_current_account_calculated), Col(p, col_map["gdp"])))
  ELSE p

\* pivot[flag] = name in pivot.columns
SetFlag(p, flag, name) == SetCol(p, flag, Const(Len(p.index), HasCol(p, name)))

\* Lines 113-117: each flag is computed after the ones before it were added.
Flags(p) ==
  SetFlag(SetFlag(SetFlag(SetFlag(SetFlag(p,
    n_has_balance_on_goods, n_balance_on_goods),
    n_has_balance_on_services, n_balance_on_services),
    n_has_balance_on_primary_income, n_balance_on_primary_income),
    n_has_balance_on_secondary_income, n_balance_on_secondary_income),
    n_has_current_account_calculated, n_current_account_calculated)

\* Line 120: pivot.reset_index().melt(id_vars="date", ...): one row per
\* column and period, the columns in their order.
Flatten(p) ==
  Tuple([k \in 1..(Len(p.cols) * Len(p.index)) |->
     LET c == ((k - 1) \div Len(p.index)) + 1
         j == ((k - 1) % Len(p.index)) + 1
     IN [date |-> p.index[j], description |-> p.cols[c], value |-> p.data[c][j]]])

\* Lines 107-127: the ratio to GDP, the flags and the long frame returned,
\* or the KeyError of line 109.
Emit(p, col_map) ==
  IF GdpKeyError(p, col_map)
  THEN [status |-> "KeyError", rows |-> <<>>, col_map |-> col_map]
  ELSE [status |-> "ok", rows |-> Flatten(Flags(PercentGdp(p, col_map))),
        col_map |-> col_map]

\* Lines 67-127: the derived series in the order the code adds them
Derive(pivot, col_map) ==
  Emit(Reported(CurrentAccount(SecondaryIncome(
         Balance(Balance(Balance(pivot, col_map,
                   n_balance_on_goods, "exports", "imports"), col_map,
                   n_balance_on_services, "services_export", "services_import"), col_map,
                   n_balance_on_primary_income, "pi_credit", "pi_debit"),
         col_map)), col_map), col_map)

\* Line 62
WithColumnMap(pivot) == Derive(pivot, _build_column_map(pivot.cols))

\* create_indicators(df) on the records of a cleaned frame
create_indicators(rows) == WithColumnMap(Pivot(rows))

(***************************************************************************)
(* The input tables of the model                                           *)
(***************************************************************************)

\* The most rows of a raw table given to clean_data.
MaxRows == 2

c_Description == <<"D","e","s","c","r","i","p","t","i","o","n">>
c_description_sp == <<" ","d","e","s","c","r","i","p","t","i","o","n"," ">>
c_Item == <<"I","t","e","m">>
c_Jun13 == <<"J","u","n","-","1","3">>
c_Jul13 == <<"J","u","l","-","1","3">>
c_Aug13 == <<"A","u","g","-","1","3">>
c_20130630 == <<"2","0","1","3","-","0","6","-","3","0">>
c_20130701 == <<"2","0","1","3","-","0","7","-","0","1">>
c_slash == <<"2","0","1","3","/","0","7","/","0","1">>
c_na == <<"n","/","a">>
t_abc == <<"a","b","c">>
d_Exports == <<"E","x","p","o","r","t","s">>
d_Exports_sp == <<" ","E","x","p","o","r","t","s"," ">>
d_GDP == <<"G","D","P">>

\* Column labels of raw tables: wide with month labels, wide with ISO
\* dates under a padded lower-case description label, wide with mixed date
\* forms, wide with dates only the general parser reads, a wide table with a
\* column named value, the long layout of the docstring, a description
\* column alone or with one other column, and no description column.
Headers ==
  << <<c_Description, c_Jun13, c_Jul13>>,
     <<c_description_sp, c_20130630, c_20130701>>,
     <<c_Description, c_Jul13, c_20130701>>,
     <<c_Description, c_slash, c_na>>,
     <<c_Description, c_Jul13, s_value>>,
     <<s_description, s_date, s_value>>,
     <<c_Description>>,
     <<c_Description, s_date>>,
     <<c_Description, s_value>>,
     <<c_Item, c_Jun13, c_Jul13>> >>

DescCells == {Txt(d_Exports), Txt(d_Exports_sp), Txt(d_GDP)}

ValueCells == {Num(5), Txt(t_abc)}

\* The rows a header admits: a description cell, then one cell per column.
RowsFor(h) ==
  {<<d>> \o c : d \in DescCells, c \in [1..(Len(h) - 1) -> ValueCells]}

\* A wide table: a description column and two or more period columns.
IsWide(df) ==
  /\ Len(df.cols) >= 3
  /\ Lower(Strip(df.cols[1])) = s_description
  /\ \A i \in 2..Len(df.cols) : Strip(df.cols[i]) \notin {s_date, s_value}

\* The long layout of a wide table: columns description, date, value and one
\* row per cell, as clean_data's docstring describes the long format.
Unpivot(df) ==
  [cols |-> <<s_description, s_date, s_value>>,
   rows |-> [k \in 1..((Len(df.cols) - 1) * Len(df.rows)) |->
               LET c == ((k - 1) \div Len(df.rows)) + 2
                   r == ((k - 1) % Len(df.rows)) + 1
               IN <<df.rows[r][1], Txt(df.cols[c]), df.rows[r][c]>>]]

\* The frame clean_data returns, as a table: date, description, value (the
\* groupby's columns), then fiscal_year.
AsTable(res) ==
  [cols |-> <<s_date, s_description, s_value, s_fiscal_year>>,
   rows |-> [i \in 1..Len(res.rows) |->
               <<Ts(res.rows[i].date), Txt(res.rows[i].description),
                 Num(res.rows[i].value), Num(res.rows[i].fiscal_year)>>]]

NoResult == Failed("none")

NoTable == [cols |-> <<>>, rows |-> <<>>]

(***************************************************************************)
(* The tables given to the whole pipeline (main.py)                        *)
(***************************************************************************)

\* The most descriptions (rows) of a pipeline table, and the most cells of
\* it that hold no amount.
MaxDescs == 3

MaxMissing == 1

l_exports == <<"E","x","p","o","r","t","s"," ","o","f"," ","g","o","o","d","s">>
l_imports == <<"I","m","p","o","r","t","s"," ","o","f"," ","g","o","o","d","s">>
l_services_export == <<"S","e","r","v","i","c","e","s"," ","e","x","p","o","r","t">>
l_services_import == <<"S","e","r","v","i","c","e","s"," ","i","m","p","o","r","t">>
l_secondary_credit == <<"S","e","c","o","n","d","a","r","y"," ","i","n","c","o","m","e"," ","c","r","e","d","i","t">>
l_secondary_debit == <<"S","e","c","o","n","d","a","r","y"," ","i","n","c","o","m","e"," ","d","e","b","i","t">>
l_remittances == <<"W","o","r","k","e","r","s"," ","r","e","m","i","t","t","a","n","c","e","s">>
l_current_account == <<"C","u","r","r","e","n","t"," ","a","c","c","o","u","n","t"," ","b","a","l","a","n","c","e">>
l_ca_to_gdp == <<"C","u","r","r","e","n","t"," ","a","c","c","o","u","n","t"," ","b","a","l","a","n","c","e"," ","t","o"," ","G","D","P">>
l_gdp == <<"G","D","P">>

\* The row labels of a balance-of-payments table. "Services export" also
\* contains the keyword "export", and "Current account balance to GDP" both
\* "current account balance" and "gdp".
IndLabels ==
  <<l_exports, l_imports, l_services_export, l_services_import,
    l_secondary_credit, l_secondary_debit, l_remittances,
    l_current_account, l_ca_to_gdp, l_gdp>>

Periods == <<c_Jul13, c_Aug13>>

\* The amount of label l in period j: all different, so that sums and
\* differences tell their operands apart.
Amount(l, j) == 100 + 10 * l + j

RECURSIVE Ascending(_)
Ascending(S) ==
  IF S = {} THEN <<>>
  ELSE LET x == CHOOSE a \in S : \A b \in S : a <= b IN <<x>> \o Ascending(S \ {x})

\* The wide table with the labels S as rows, the cells M empty and the
\* cells Z holding the text "0".
IndTable(S, M, Z) ==
  LET ls == Ascending(S)
  IN [cols |-> <<c_Description>> \o Periods,
      rows |-> [r \in 1..Len(ls) |->
                  <<Txt(IndLabels[ls[r]])>> \o
                  [j \in 1..Len(Periods) |->
                     IF <<ls[r], j>> \in M THEN Empty
                     ELSE IF <<ls[r], j>> \in Z THEN Txt(<<"0">>)
                     ELSE Num(Amount(ls[r], j))]]]

\* The label sets of at most MaxDescs labels; for labels S, the sets of at
\* most MaxMissing cells that hold no amount; and, of those, the GDP cells
\* that hold a zero rather than nothing.
LabelSets == {x \in SUBSET (1..Len(IndLabels)) : Cardinality(x) <= MaxDescs}

HoleSets(S) ==
  {m \in SUBSET (S \X (1..Len(Periods))) : Cardinality(m) <= MaxMissing}

ZeroSets(H) == SUBSET {c \in H : IndLabels[c[1]] = l_gdp}

(***************************************************************************)
(* The operations                                                          *)
(***************************************************************************)

\* main.py line 9: df = clean_data(df)
Clean ==
  /\ pc = "raw"
  /\ cleaned' = clean_data(build, table)
  /\ pc' = "cleaned"
  /\ UNCHANGED <<build, table, again, longres, ind, cols, colmap>>

\* clean_data given its own output
Reclean ==
  /\ pc = "cleaned"
  /\ cleaned.status = "ok"
  /\ again' = clean_data(build, AsTable(cleaned))
  /\ pc' = "recleaned"
  /\ UNCHANGED <<build, table, cleaned, longres, ind, cols, colmap>>

\* clean_data given the long layout of the same wide table
CleanLong ==
  /\ pc = "cleaned"
  /\ IsWide(table)
  /\ longres' = clean_data(build, Unpivot(table))
  /\ pc' = "longdone"
  /\ UNCHANGED <<build, table, cleaned, again, ind, cols, colmap>>

\* main.py line 10: df = create_indicators(df)
Indicators ==
  /\ pc = "cleaned"
  /\ cleaned.status = "ok"
  /\ ind' = create_indicators(cleaned.rows)
  /\ pc' = "derived"
  /\ UNCHANGED <<build, table, cleaned, again, longres, cols, colmap>>

NoOutput == [status |-> "none", rows |-> <<>>, col_map |-> <<>>]

InitClean ==
  /\ build \in BOOLEAN
  /\ \E h \in 1..Len(Headers), n \in 0..MaxRows :
       \E r \in [1..n -> RowsFor(Headers[h])] :
         table = [cols |-> Headers[h], rows |-> r]
  /\ pc = "raw"
  /\ cleaned = NoResult
  /\ again = NoResult
  /\ longres = NoResult
  /\ ind = NoOutput
  /\ cols = <<>>
  /\ colmap = <<>>

NextClean == Clean \/ Reclean \/ CleanLong

SpecClean == InitClean /\ [][NextClean]_vars

\* main.py: a table is loaded, cleaned, and its indicators derived.
Init ==
  /\ build = TRUE
  /\ \E S \in LabelSets : \E H \in HoleSets(S) : \E Z \in ZeroSets(H) :
       table = IndTable(S, H \ Z, Z)
  /\ pc = "raw"
  /\ cleaned = NoResult
  /\ again = NoResult
  /\ longres = NoResult
  /\ ind = NoOutput
  /\ cols = <<>>
  /\ colmap = <<>>

Next == Clean \/ Indicators

Spec == Init /\ [][Next]_vars

(***************************************************************************)
(* The label resolver on its own: any sequence of raw labels               *)
(***************************************************************************)

MaxLabels == 3

r_exports_fob == <<"E","x","p","o","r","t","s"," ","f","o","b">>
r_exports_dash == <<"E","x","p","o","r","t","s","-","f","o","b">>
r_imports == <<"I","m","p","o","r","t","s">>
r_reexports == <<"R","e","-","e","x","p","o","r","t","s">>
r_reserves == <<"R","e","s","e","r","v","e","s">>

\* Two of the labels normalize to the same text, "exports fob".
ResolveLabels ==
  {r_exports_fob, r_exports_dash, r_imports, r_reexports, d_GDP, r_reserves}

\* feature_engineering.py line 62: col_map = _build_column_map(columns)
Resolve ==
  /\ pc = "labels"
  /\ colmap' = _build_column_map(cols)
  /\ pc' = "resolved"
  /\ UNCHANGED <<build, table, cleaned, again, longres, ind, cols>>

InitResolve ==
  /\ build = TRUE
  /\ table = NoTable
  /\ pc = "labels"
  /\ cleaned = NoResult
  /\ again = NoResult
  /\ longres = NoResult
  /\ ind = NoOutput
  /\ \E n \in 0..MaxLabels : cols \in [1..n -> ResolveLabels]
  /\ colmap = <<>>

NextResolve == Resolve

SpecResolve == InitResolve /\ [][NextResolve]_vars

(***************************************************************************)
(* Properties of clean_data                                                *)
(***************************************************************************)

Records(rows) == {rows[i] : i \in 1..Len(rows)}

HasDescription(df) ==
  \E i \in 1..Len(df.cols) : Lower(Strip(df.cols[i])) = s_description

\* C1: every record clean_data returns has the fiscal year named for the
\* calendar year in which it ends: July-December of year Y gives Y + 1,
\* January-June of year Y gives Y.
C1_FiscalYearNamesEndingYear ==
  (pc # "raw" /\ cleaned.status = "ok") =>
    \A r \in Records(cleaned.rows) :
      r.fiscal_year = IF r.date.m >= 7 THEN r.date.y + 1 ELSE r.date.y

\* C2: clean_data of a wide table and clean_data of its long layout return
\* the same set of (description, date, value, fiscal_year) records.
C2_WideEqualsLong ==
  pc = "longdone" =>
    /\ longres.status = "ok"
    /\ Records(longres.rows) = Records(cleaned.rows)

\* C3: clean_data on its own output succeeds and returns exactly the
\* records it was given.
C3_Idempotent ==
  pc = "recleaned" => (again.status = "ok" /\ again.rows = cleaned.rows)

\* C4: clean_data fails only with the missing-description-column error, and
\* exactly when the table has no description column; with one it returns
\* records, whatever the other columns.
C4_OnlyMissingColumnError ==
  pc # "raw" =>
    /\ HasDescription(table) => cleaned.status = "ok"
    /\ ~HasDescription(table) => cleaned.status = "MissingColumn"

\* The rows of the reshaped frame of a wide table whose date (the column
\* label) is unparsable, those that parse but whose value is not numeric,
\* and those that parse and are numeric.
WideDates(df) ==
  _try_parse_dates(Tuple([k \in 1..((Len(df.cols) - 1) * Len(df.rows)) |->
                            Strip(df.cols[((k - 1) \div Len(df.rows)) + 2])]))

WideCells(df) ==
  {<<r, c>> : r \in 1..Len(df.rows), c \in 2..Len(df.cols)}

BadDateCells(df, dates) ==
  {rc \in WideCells(df) : dates[(rc[2] - 2) * Len(df.rows) + rc[1]] = NaT}

BadValueCells(df, dates) ==
  {rc \in WideCells(df) : /\ dates[(rc[2] - 2) * Len(df.rows) + rc[1]] # NaT
                          /\ ToNumeric(df.rows[rc[1]][rc[2]]).na}

\* C8 as claimed: the reported count covers every excluded row, so the rows
\* after reshaping less the reported count are the rows that are grouped.
C8_ReportedCountsAllDrops ==
  (pc # "raw" /\ cleaned.status = "ok") =>
    cleaned.reshaped - cleaned.reported = cleaned.grouped

\* C8 amended: the reported count is the number of rows with an unparsable
\* date only; the rows dropped for a value that is not numeric are excluded
\* from the grouping without being counted.
C8_ReportedCountsDatesOnly ==
  (pc # "raw" /\ cleaned.status = "ok") =>
    LET dates == WideDates(table) IN
    /\ cleaned.reshaped = Cardinality(WideCells(table))
    /\ cleaned.reported = Cardinality(BadDateCells(table, dates))
    /\ cleaned.grouped = cleaned.reshaped - cleaned.reported
                           - Cardinality(BadValueCells(table, dates))

\* A cleaned table that lost a row to an unparsable date and another to a
\* value that is not numeric.
C8_Witness ==
  /\ pc = "cleaned"
  /\ cleaned.status = "ok"
  /\ cleaned.reported > 0
  /\ cleaned.reshaped - cleaned.reported > cleaned.grouped

(***************************************************************************)
(* Properties of _build_column_map                                         *)
(***************************************************************************)

\* The position in cs of the first label whose normalized form contains one
\* of the keywords of the key, 0 when there is none.
FirstMatch(key, cs) ==
  FirstIdx({i \in 1..Len(cs) : \E kw \in Range(keywords[key]) :
                                  Contains(_normalize_text(cs[i]), kw)})

\* C7: each canonical key is assigned the first label of the input ordering
\* whose normalized form contains one of its keywords, and is absent when no
\* label matches, also when several labels normalize to the same text.
C7_FirstLabelWins ==
  pc = "resolved" =>
    \A key \in Range(Canon) :
      LET i == FirstMatch(key, cols)
      IN IF i = 0 THEN key \notin DOMAIN colmap
                  ELSE key \in DOMAIN colmap /\ colmap[key] = cols[i]

(***************************************************************************)
(* Properties of create_indicators                                         *)
(***************************************************************************)

InRows == Records(cleaned.rows)

OutRows == Records(ind.rows)

InDates == {x.date : x \in InRows}

InDescs == {x.description : x \in InRows}

HasRecord(c, d) == \E x \in InRows : x.description = c /\ x.date = d

HasOut(name) == \E r \in OutRows : r.description = name

OutVal(name, d) ==
  (CHOOSE r \in OutRows : r.description = name /\ r.date = d).value

Derived == pc = "derived" /\ ind.status = "ok"

FlagNames ==
  {n_has_balance_on_goods, n_has_balance_on_services,
   n_has_balance_on_primary_income, n_has_balance_on_secondary_income,
   n_has_current_account_calculated}

Vocabulary ==
  {n_balance_on_goods, n_balance_on_services, n_balance_on_primary_income,
   n_balance_on_secondary_income, n_current_account_calculated,
   n_current_account_reported, n_current_account_diff, n_ca_percent_gdp}
    \cup FlagNames

\* The input label whose column create_indicators renames, if any.
RenamedLabels ==
  IF "current_account_balance" \in DOMAIN ind.col_map
  THEN {ind.col_map["current_account_balance"]}
  ELSE {}

OnlyGoodsResolve ==
  /\ {"exports", "imports"} \subseteq DOMAIN ind.col_map
  /\ DOMAIN ind.col_map \cap
       {"services_export", "services_import", "pi_credit", "pi_debit",
        "secondary_credit", "secondary_debit", "workers_remittances"} = {}

\* C6: when exports and imports are the only components that resolve,
\* current_account_calculated equals balance_on_goods in every period, the
\* flags of the other three balances are 0 and those of balance_on_goods and
\* current_account_calculated are 1.
C6_OnlyGoodsEqualsGoods ==
  (Derived /\ OnlyGoodsResolve) =>
    \A d \in InDates :
      /\ OutVal(n_current_account_calculated, d) = OutVal(n_balance_on_goods, d)
      /\ OutVal(n_has_balance_on_services, d) = Val(0)
      /\ OutVal(n_has_balance_on_primary_income, d) = Val(0)
      /\ OutVal(n_has_balance_on_secondary_income, d) = Val(0)
      /\ OutVal(n_has_balance_on_goods, d) = Val(1)
      /\ OutVal(n_has_current_account_calculated, d) = Val(1)

\* Both sides of a balance resolve and one has no record for the date.
SideMissing(credit, debit, d) ==
  /\ {credit, debit} \subseteq DOMAIN ind.col_map
  /\ \/ ~HasRecord(ind.col_map[credit], d)
     \/ ~HasRecord(ind.col_map[debit], d)

\* C9: a missing operand makes the derived value of that period missing, in
\* each balance, in current_account_calculated, in current_account_diff and
\* in ca_percent_gdp.
C9_MissingPropagates ==
  Derived =>
    \A d \in InDates :
      /\ SideMissing("exports", "imports", d) => OutVal(n_balance_on_goods, d).na
      /\ SideMissing("services_export", "services_import", d) =>
           OutVal(n_balance_on_services, d).na
      /\ SideMissing("pi_credit", "pi_debit", d) =>
           OutVal(n_balance_on_primary_income, d).na
      /\ (/\ HasOut(n_balance_on_secondary_income)
          /\ ~HasRecord(ind.col_map["secondary_debit"], d)) =>
           OutVal(n_balance_on_secondary_income, d).na
      /\ \A c \in Range(comps) :
           (HasOut(c) /\ OutVal(c, d).na) => OutVal(n_current_account_calculated, d).na
      /\ (/\ HasOut(n_current_account_diff)
          /\ \/ OutVal(n_current_account_reported, d).na
             \/ OutVal(n_current_account_calculated, d).na) =>
           OutVal(n_current_account_diff, d).na
      /\ (/\ HasOut(n_ca_percent_gdp)
          /\ \/ OutVal(n_current_account_calculated, d).na
             \/ ~HasRecord(ind.col_map["gdp"], d)) =>
           OutVal(n_ca_percent_gdp, d).na

\* The description under which the records of the input label c are emitted.
Shown(c) == IF c \in RenamedLabels THEN n_current_account_reported ELSE c

IsInputRecord(r) ==
  \E x \in InRows : /\ r.description = x.description
                    /\ r.date = x.date
                    /\ r.value = Val(x.value)

IsShownRecord(r) ==
  \E x \in InRows : /\ r.description = Shown(x.description)
                    /\ r.date = x.date
                    /\ r.value = Val(x.value)

\* C10 as claimed: every input record is emitted with its description and
\* value, and every other emitted row has a description of the vocabulary.
C10_OriginalPlusVocabulary ==
  Derived =>
    /\ \A x \in InRows :
         \E r \in OutRows : /\ r.description = x.description
                            /\ r.date = x.date
                            /\ r.value = Val(x.value)
    /\ \A r \in OutRows : IsInputRecord(r) \/ r.description \in Vocabulary

\* C10 amended: every input record is emitted with its date and value, under
\* its own description unless its label resolved to current_account_balance,
\* and then under current_account_reported only; every other emitted row
\* has a description of the vocabulary or secondary_credit_combined, or is a
\* missing-valued row of an input description that has no record for that
\* date.
C10_RenamedPlusDerivedPlusFillers ==
  Derived =>
    /\ \A x \in InRows :
         \E r \in OutRows : /\ r.description = Shown(x.description)
                            /\ r.date = x.date
                            /\ r.value = Val(x.value)
    /\ \A r \in OutRows :
         \/ IsShownRecord(r)
         \/ r.description \in Vocabulary \cup {n_secondary_credit_combined}
         \/ /\ r.description \in InDescs
            /\ r.value.na
            /\ ~HasRecord(r.description, r.date)

\* An output in which a reported series was renamed, secondary credit was
\* combined and a missing-valued row fills a date without a record.
C10_Witness ==
  /\ Derived
  /\ RenamedLabels # {}
  /\ HasOut(n_current_account_reported)
  /\ HasOut(n_secondary_credit_combined)
  /\ \E r \in OutRows : r.description \in InDescs /\ r.value.na

\* C11: create_indicators completes without raising for every record stream
\* that clean_data produces, whatever labels resolve to the canonical keys,
\* also when one label satisfies several keys at once.
C11_NeverRaises ==
  pc = "derived" => ind.status = "ok"

====
